---------------------------- MODULE Spec2Model ----------------------------
(***************************************************************************)
(* A model of package cspbuilder (jaynzr/cspbuilder): the Directive and    *)
(* Policy data model, Directive.write, hash, Policy.Build / MergeBuild /   *)
(* writeDirs and Policy.WithNonce, as they stand in the current revision   *)
(* of the package (the string-source revision, src/unnamed/part_002 lines  *)
(* 1-378).                                                                 *)
(*                                                                         *)
(* Strings are TLA+ strings; a directive is a record of its two fields; a  *)
(* *Directive is an identifier into the variable heap, so that two map     *)
(* entries holding the same pointer share one record.  The order in which  *)
(* "for name, d := range pp.dirs" visits a Go map is unspecified, so every *)
(* call picks one order among all of them.  crypto/rand is an environment  *)
(* that hands out 16-byte values, never the same value twice.              *)
(***************************************************************************)
EXTENDS Integers, Sequences, FiniteSets, TLC

VARIABLES
    heap,            \* directive identifier -> Directive{sources, requireNonce}
    allocated,       \* number of directives created so far by &Directive{}
    dirs,            \* Policy.dirs: directive name -> directive identifier
    ReportURI,       \* Policy.ReportURI
    UpgradeInsecureRequests, \* Policy.UpgradeInsecureRequests
    Compiled,        \* Policy.Compiled
    RequireNonce,    \* Policy.RequireNonce
    Nonce,           \* package variable Nonce, the placeholder
    drawn,           \* the values crypto/rand has handed out
    lastOp,          \* the call that was made last
    arg,             \* what the last call was given: the additions of
                     \* MergeBuild, the sources of New and Add, the hash type
                     \* and the source of Hash
    ret,             \* the string the last call returned
    nonce,           \* the caller's nonce variable after the last WithNonce
    panicked,        \* the last call ended in panic
    built,           \* history: Build ran after the last configuration change
    ops,             \* number of calls made
    calls,           \* per goroutine, the call it is in and the call's locals
    request          \* the request the middleware is serving: the locals of
                     \* its handler func, the request's context, the response

vars == <<heap, allocated, dirs, ReportURI, UpgradeInsecureRequests, Compiled,
          RequireNonce, Nonce, drawn, lastOp, arg, ret, nonce, panicked,
          built, ops, calls, request>>

---------------------------------------------------------------------------
(* Bounds of the model. *)

\* calls made in one run
MaxOps == 4

\* distinct values the random source can hand out: as many as the calls of
\* one run, so that a value not handed out before is left at every draw
MaxRand == 4

\* goroutines that call a shared policy
NumGoroutines == 2

\* calls the goroutines make on the shared policy in one run
MaxConcurrentOps == 3

---------------------------------------------------------------------------
(* Constants of the package. *)

Default == "default-src"
Connect == "connect-src"
Img == "img-src"
Script == "script-src"
Style == "style-src"
BaseURI == "base-uri"
Form == "form-action"

upgradeInsecureRequests == "upgrade-insecure-requests;"
reportUri == "report-uri "

SHA256 == 256
SHA384 == 384
SHA512 == 512

None == "'none'"
All == "*"
Self == "'self'"
StrictDynamic == "'strict-dynamic'"
UnsafeEval == "'unsafe-eval'"
UnsafeInline == "'unsafe-inline'"
UnsafeHashes == "'unsafe-hashes'"
UnsafeAllowRedirects == "'unsafe-allow-redirects'"
Blob == "blob:"
Data == "data:"
Mediastream == "mediastream:"
Filesystem == "filesystem:"

\* the initial value of var Nonce, and what SetNoncePlaceholder("") restores
DefaultNonce == "$NONCE"

\* len(_b) in WithNonce
NonceBytes == 16

---------------------------------------------------------------------------
(* strings.Contains, strings.ReplaceAll *)

HasPrefixAt(s, i, p) ==
    /\ i + Len(p) - 1 <= Len(s)
    /\ SubSeq(s, i, i + Len(p) - 1) = p

Contains(s, p) == \E i \in 1..(Len(s) + 1) : HasPrefixAt(s, i, p)

\* index of the first occurrence of p in s at or after i, 0 if there is none
IndexFrom(s, i, p) ==
    LET found == {j \in i..(Len(s) - Len(p) + 1) : HasPrefixAt(s, j, p)}
    IN  IF found = {} THEN 0
        ELSE CHOOSE j \in found : \A k \in found : j <= k

RECURSIVE ReplaceFrom(_, _, _, _)
ReplaceFrom(s, i, old, new) ==
    LET j == IndexFrom(s, i, old)
    IN  IF j = 0 THEN SubSeq(s, i, Len(s))
        ELSE SubSeq(s, i, j - 1) \o new \o ReplaceFrom(s, j + Len(old), old, new)

ReplaceAll(s, old, new) == ReplaceFrom(s, 1, old, new)

---------------------------------------------------------------------------
(* encoding/base64: StdEncoding (padded) and RawURLEncoding (unpadded) *)

encodeStd == "ABCDEFGHIJKLMNOPQRSTUVWXYZabcdefghijklmnopqrstuvwxyz0123456789+/"
encodeURL == "ABCDEFGHIJKLMNOPQRSTUVWXYZabcdefghijklmnopqrstuvwxyz0123456789-_"

Sextet(alphabet, v) == SubSeq(alphabet, v + 1, v + 1)

RECURSIVE Encode(_, _, _)
Encode(alphabet, padding, b) ==
    IF Len(b) = 0 THEN ""
    ELSE IF Len(b) = 1 THEN
        Sextet(alphabet, b[1] \div 4)
        \o Sextet(alphabet, (b[1] % 4) * 16)
        \o (IF padding THEN "==" ELSE "")
    ELSE IF Len(b) = 2 THEN
        Sextet(alphabet, b[1] \div 4)
        \o Sextet(alphabet, (b[1] % 4) * 16 + b[2] \div 16)
        \o Sextet(alphabet, (b[2] % 16) * 4)
        \o (IF padding THEN "=" ELSE "")
    ELSE
        Sextet(alphabet, b[1] \div 4)
        \o Sextet(alphabet, (b[1] % 4) * 16 + b[2] \div 16)
        \o Sextet(alphabet, (b[2] % 16) * 4 + b[3] \div 64)
        \o Sextet(alphabet, b[3] % 64)
        \o Encode(alphabet, padding, SubSeq(b, 4, Len(b)))

\* a variant of the encoding of hash: the standard alphabet without padding
StdEncodingUnpadded(b) == Encode(encodeStd, FALSE, b)

StdEncoding(b) == Encode(encodeStd, TRUE, b)
RawURLEncoding(b) == Encode(encodeURL, FALSE, b)

---------------------------------------------------------------------------
(* crypto/sha256 and crypto/sha512 on the script texts the model hashes *)

HashSources == {"doSomething()", "doSomething();"}

Sum256(source) ==
    CASE source = "doSomething()" ->
           <<110,116,36,131,0,31,141,60,103,101,41,69,197,151,181,162,2,90,
             116,17,203,157,27,174,47,158,22,11,235,254,180,198>>
      [] source = "doSomething();" ->
           <<68,85,143,44,54,239,216,22,62,172,41,3,206,193,62,209,250,252,
             202,81,171,217,29,159,105,99,33,171,137,95,17,7>>

Sum384(source) ==
    CASE source = "doSomething()" ->
           <<117,42,176,111,2,120,191,16,197,179,201,222,218,148,142,6,17,
             205,194,40,110,252,164,115,35,33,133,193,108,79,198,72,57,36,
             67,100,106,84,210,248,42,35,29,236,89,35,124,19>>
      [] source = "doSomething();" ->
           <<2,133,142,216,211,126,60,106,109,221,59,157,186,82,219,188,108,
             133,85,193,113,177,25,43,154,15,111,209,40,111,88,0,124,86,227,
             235,175,85,1,47,88,114,171,229,195,184,16,3>>

Sum512(source) ==
    CASE source = "doSomething()" ->
           <<54,180,182,20,0,110,172,220,200,91,108,147,41,28,69,241,127,135,
             50,18,97,219,219,221,246,204,142,46,235,117,49,110,2,119,82,94,
             27,54,106,186,8,75,204,47,139,66,189,14,241,113,97,10,228,120,
             207,40,203,130,180,208,114,222,227,0>>
      [] source = "doSomething();" ->
           <<38,98,89,101,204,155,149,148,2,30,86,81,176,160,195,181,249,64,
             97,36,100,138,205,42,201,80,229,119,193,152,98,1,55,220,225,222,
             171,111,110,166,205,102,109,97,145,27,150,44,80,144,60,94,85,5,
             45,218,140,50,145,24,95,153,189,88>>

\* hash panics("invalid hashType") on any other HashType
ValidHashType(ht) == ht \in {SHA256, SHA384, SHA512}

hash(ht, source) ==
    CASE ht = SHA256 -> "'sha256-" \o StdEncoding(Sum256(source)) \o "'"
      [] ht = SHA384 -> "'sha384-" \o StdEncoding(Sum384(source)) \o "'"
      [] ht = SHA512 -> "'sha512-" \o StdEncoding(Sum512(source)) \o "'"

---------------------------------------------------------------------------
(* crypto/rand: the k-th value the source can hand out *)

RandValue(k) == [j \in 1..NonceBytes |-> (k * 83 + j * 29) % 256]

---------------------------------------------------------------------------
(* The data model. *)

\* the addresses of the two shared directives, var SelfDirective / NoneDirective
SelfDirective == 1
NoneDirective == 2

\* &Directive{}
EmptyDirective == [sources |-> <<>>, requireNonce |-> FALSE]

\* a nil map[string]*Directive
NilDirs == <<>>

\* the directive names a policy of the model is configured with
Names == {Default, Script}

\* the directive names a request registers additions under
AdditionNames == {Default, Script}

\* the invalid HashType of the model
InvalidHashType == 1

\* the HashTypes given to Directive.Hash
HashTypes == {SHA256, InvalidHashType}

\* all orders in which a range statement can visit the keys S of a map
Orders(S) ==
    {o \in [1..Cardinality(S) -> S] :
        \A i, j \in 1..Cardinality(S) : i # j => o[i] # o[j]}

---------------------------------------------------------------------------
(* Directive methods, as functions of the directive's value. *)

RECURSIVE Join(_, _)
Join(sources, i) ==
    IF i > Len(sources) THEN ""
    ELSE " " \o sources[i] \o Join(sources, i + 1)

\* a variant of write that starts with the source added last
writeLastFirst(d) ==
    LET n == Len(d.sources)
        r == [i \in 1..n |-> d.sources[n + 1 - i]]
    IN  IF n > 0 THEN r[1] \o Join(r, 2) ELSE None

\* Directive.write: what it appends to the builder
write(d) ==
    IF Len(d.sources) > 0
    THEN d.sources[1] \o Join(d.sources, 2)
    ELSE None

\* Directive.Add panics on the two shared directives
AddPanics(id) == id = SelfDirective \/ id = NoneDirective

\* a variant of Add that looks for the placeholder in the first source only
AddFirstSourceOnly(d, sources, ph) ==
    [sources |-> d.sources \o sources,
     requireNonce |-> d.requireNonce \/ (Len(sources) > 0 /\ sources[1] = ph)]

\* Directive.Add on any other directive; ph is the value of var Nonce
Add(d, sources, ph) ==
    [sources |-> d.sources \o sources,
     requireNonce |-> d.requireNonce \/ \E i \in 1..Len(sources) : sources[i] = ph]

\* Directive.Hash, for a valid HashType
Hash(d, ht, source) ==
    [sources |-> Append(d.sources, hash(ht, source)),
     requireNonce |-> d.requireNonce]

---------------------------------------------------------------------------
(* Policy.writeDirs, Policy.MergeBuild as functions of the policy's fields,
   the additions and the order the range statement takes. *)

\* a variant of writeDir that puts no space before the additional sources
writeDirNoSeparator(ds, hp, additions, name) ==
    name \o " " \o write(hp[ds[name]])
    \o (IF name \in DOMAIN additions
        THEN write(additions[name])
        ELSE "")
    \o ";"

\* one iteration of the loop in writeDirs: what it appends to the builder
writeDir(ds, hp, additions, name) ==
    name \o " " \o write(hp[ds[name]])
    \o (IF name \in DOMAIN additions
        THEN " " \o write(additions[name])
        ELSE "")
    \o ";"

RECURSIVE writeDirsFrom(_, _, _, _, _)
writeDirsFrom(ds, hp, additions, order, i) ==
    IF i > Len(order) THEN ""
    ELSE writeDir(ds, hp, additions, order[i])
         \o writeDirsFrom(ds, hp, additions, order, i + 1)

RECURSIVE writeAdditionsFrom(_, _, _)
writeAdditionsFrom(additions, order, i) ==
    IF i > Len(order) THEN ""
    ELSE order[i] \o " " \o write(additions[order[i]]) \o ";"
         \o writeAdditionsFrom(additions, order, i + 1)

\* a variant of writeDirs that also emits the directives only the additions
\* have
writeDirsWithAdditions(ds, hp, additions, order) ==
    writeDirsFrom(ds, hp, additions, order, 1)
    \o writeAdditionsFrom(additions,
           CHOOSE o \in Orders(DOMAIN additions \ DOMAIN ds) : TRUE, 1)

\* the text writeDirs appends to the builder
writeDirs(ds, hp, additions, order) == writeDirsFrom(ds, hp, additions, order, 1)

\* a variant of the loop of writeDirs that does not look at the additions
writeDirRequireNonceStatic(rn, ds, hp, additions, name) ==
    \/ rn
    \/ hp[ds[name]].requireNonce

\* one iteration of the loop in writeDirs: the value it leaves in
\* pp.RequireNonce, which is rn before it
writeDirRequireNonce(rn, ds, hp, additions, name) ==
    \/ rn
    \/ hp[ds[name]].requireNonce
    \/ name \in DOMAIN additions /\ additions[name].requireNonce

\* the value writeDirs leaves in pp.RequireNonce, which is rn on entry
writeDirsRequireNonce(rn, ds, hp, additions) ==
    \/ rn
    \/ \E name \in DOMAIN ds : writeDirRequireNonce(FALSE, ds, hp, additions, name)

\* a variant of MergeBuild without the reset of pp.RequireNonce
MergeBuildRequireNonceNoReset(rn, ds, hp, additions) ==
    writeDirsRequireNonce(rn, ds, hp, additions)

\* the value MergeBuild leaves in pp.RequireNonce: reset, then writeDirs
MergeBuildRequireNonce(rn, ds, hp, additions) ==
    writeDirsRequireNonce(FALSE, ds, hp, additions)

\* a variant of MergeBuild that leaves the trailing ";"
TrimNothing(compiled) == compiled

\* the last lines of MergeBuild: one trailing ";" is cut
TrimSemicolon(compiled) ==
    IF Len(compiled) > 0 /\ SubSeq(compiled, Len(compiled), Len(compiled)) = ";"
    THEN SubSeq(compiled, 1, Len(compiled) - 1)
    ELSE compiled

\* a variant of the end of MergeBuild that writes report-uri before
\* upgrade-insecure-requests
MergeBuildFinishReportFirst(text, upgrade, uri) ==
    TrimSemicolon(
        text
        \o (IF uri # "" THEN reportUri \o uri \o ";" ELSE "")
        \o (IF upgrade THEN upgradeInsecureRequests ELSE ""))

\* MergeBuild after writeDirs, text being what the builder holds
MergeBuildFinish(text, upgrade, uri) ==
    TrimSemicolon(
        text
        \o (IF upgrade THEN upgradeInsecureRequests ELSE "")
        \o (IF uri # "" THEN reportUri \o uri ELSE ""))

\* the string MergeBuild returns
MergeBuildString(ds, hp, upgrade, uri, additions, order) ==
    MergeBuildFinish(writeDirs(ds, hp, additions, order), upgrade, uri)

---------------------------------------------------------------------------
(* What the calls of the model are given. *)

\* the source lists given to Policy.New and Directive.Add; ph is var Nonce
SourceLists(ph) == {<<Self>>, <<"cdn.jsdelivr.net", ph>>}

\* the source lists the tests give to one directive; ph is var Nonce
DirectiveSourceLists(ph) ==
    {<<All>>,
     <<Self, "www.google.com/recaptcha/">>,
     <<UnsafeInline, Data, ph, StrictDynamic>>}

\* the hash types and the scripts Directive.Hash is given
DirectiveHashTypes == {SHA256, SHA384, SHA512, InvalidHashType}

\* the values Policy.ReportURI is set to
ReportURIs == {"", "/_csp-report"}

\* the directives a request registers: csphandler.Directive(w, ds), then
\* nothing, Hash or Add(Nonce)
AdditionDirectives(ph) ==
    {EmptyDirective,
     Hash(EmptyDirective, SHA256, "doSomething();"),
     Add(EmptyDirective, <<ph>>, ph)}

\* the additions maps given to MergeBuild (the empty one stands for nil too):
\* none, one directive under script-src, or one under each name
Additions(ph) ==
    UNION {[S -> AdditionDirectives(ph)] : S \in {{}, {Script}}}
    \cup {[name \in AdditionNames |->
              IF name = Script THEN Add(EmptyDirective, <<ph>>, ph)
              ELSE Hash(EmptyDirective, SHA256, "doSomething();")]}

\* the additions maps of the requests served side by side: none, or one
\* directive under script-src that holds a hash or the placeholder
RequestAdditions(ph) ==
    {a \in Additions(ph) :
        /\ DOMAIN a \subseteq {Script}
        /\ \A name \in DOMAIN a : a[name] # EmptyDirective}

---------------------------------------------------------------------------
(* The state after cspbuilder.New(). *)

\* the goroutines
Goroutines == 1..NumGoroutines

\* no request is being served
NoRequest == [pc |-> "idle"]

\* a goroutine that is in no call of the policy
Idle == [pc |-> "idle", additions |-> NilDirs, order |-> <<>>, i |-> 0, sb |-> "",
         rn |-> FALSE]

Init ==
    /\ heap = <<[sources |-> <<Self>>, requireNonce |-> FALSE],
                [sources |-> <<None>>, requireNonce |-> FALSE]>>
    /\ allocated = 0
    /\ dirs = NilDirs
    /\ ReportURI = ""
    /\ UpgradeInsecureRequests = FALSE
    /\ Compiled = ""
    /\ RequireNonce = FALSE
    /\ Nonce = DefaultNonce
    /\ drawn = {}
    /\ lastOp = "New"
    /\ arg = NilDirs
    /\ ret = ""
    /\ nonce = ""
    /\ panicked = FALSE
    /\ built = FALSE
    /\ ops = 0
    /\ calls = [t \in Goroutines |-> Idle]
    /\ request = NoRequest

\* the record of a call: its name, what it was given (additions), what it
\* returned, the caller's nonce variable, whether it panicked
Call(op, additions, r, n, p) ==
    /\ ops < MaxOps
    /\ ops' = ops + 1
    /\ lastOp' = op
    /\ arg' = additions
    /\ ret' = r
    /\ nonce' = n
    /\ panicked' = p
    /\ calls' = calls
    /\ request' = request

\* a variant of the map assignment that keeps the directive a name has
StoreKeepFirst(name, id) ==
    [n \in DOMAIN dirs \cup {name} |-> IF n = name /\ n \notin DOMAIN dirs THEN id ELSE dirs[n]]

\* pp.dirs[name] = d
Store(name, id) ==
    [n \in DOMAIN dirs \cup {name} |-> IF n = name THEN id ELSE dirs[n]]

---------------------------------------------------------------------------
(* The calls that configure a policy. *)

\* Policy.New(name, sources...)
PolicyNew(name, sources) ==
    /\ Call("Policy.New", sources, "", "", FALSE)
    /\ heap' = Append(heap, IF Len(sources) > 0
                            THEN Add(EmptyDirective, sources, Nonce)
                            ELSE EmptyDirective)
    /\ allocated' = allocated + 1
    /\ dirs' = Store(name, Len(heap) + 1)
    /\ built' = FALSE
    /\ UNCHANGED <<ReportURI, UpgradeInsecureRequests, Compiled, RequireNonce,
                   Nonce, drawn>>

\* Policy.With(name, d), d a directive that exists
PolicyWith(name, id) ==
    /\ Call("Policy.With", NilDirs, "", "", FALSE)
    /\ dirs' = Store(name, id)
    /\ built' = FALSE
    /\ UNCHANGED <<heap, allocated, ReportURI, UpgradeInsecureRequests,
                   Compiled, RequireNonce, Nonce, drawn>>

\* Policy.Remove(name)
PolicyRemove(name) ==
    /\ Call("Policy.Remove", NilDirs, "", "", FALSE)
    /\ dirs' = [n \in DOMAIN dirs \ {name} |-> dirs[n]]
    /\ built' = FALSE
    /\ UNCHANGED <<heap, allocated, ReportURI, UpgradeInsecureRequests,
                   Compiled, RequireNonce, Nonce, drawn>>

\* d.Add(sources...)
DirectiveAdd(id, sources) ==
    /\ Call("Directive.Add", sources, "", "", AddPanics(id))
    /\ heap' = IF AddPanics(id) THEN heap
               ELSE [heap EXCEPT ![id] = Add(heap[id], sources, Nonce)]
    /\ built' = (built /\ AddPanics(id))
    /\ UNCHANGED <<allocated, dirs, ReportURI, UpgradeInsecureRequests,
                   Compiled, RequireNonce, Nonce, drawn>>

\* a variant of Hash without the default case of the switch, as the earlier
\* revisions have it: the literal is made of the prefix and no digest
HashPanickedAppends(d) ==
    [sources |-> Append(d.sources, "'sha'"), requireNonce |-> d.requireNonce]

\* the directive after hash has panicked: the panic leaves
\* "d.sources = append(d.sources, hash(ht, source))" before the append
HashPanicked(d) == d

\* d.Hash(ht, source)
DirectiveHash(id, ht, source) ==
    /\ Call("Directive.Hash", [ht |-> ht, source |-> source], "", "",
            ~ValidHashType(ht))
    /\ heap' = IF ValidHashType(ht)
               THEN [heap EXCEPT ![id] = Hash(heap[id], ht, source)]
               ELSE [heap EXCEPT ![id] = HashPanicked(heap[id])]
    /\ built' = (built /\ ~ValidHashType(ht))
    /\ UNCHANGED <<allocated, dirs, ReportURI, UpgradeInsecureRequests,
                   Compiled, RequireNonce, Nonce, drawn>>

\* pp.ReportURI = uri
SetReportURI(uri) ==
    /\ uri # ReportURI
    /\ Call("ReportURI=", NilDirs, "", "", FALSE)
    /\ ReportURI' = uri
    /\ built' = FALSE
    /\ UNCHANGED <<heap, allocated, dirs, UpgradeInsecureRequests, Compiled,
                   RequireNonce, Nonce, drawn>>

\* pp.UpgradeInsecureRequests = b
SetUpgradeInsecureRequests(b) ==
    /\ b # UpgradeInsecureRequests
    /\ Call("UpgradeInsecureRequests=", NilDirs, "", "", FALSE)
    /\ UpgradeInsecureRequests' = b
    /\ built' = FALSE
    /\ UNCHANGED <<heap, allocated, dirs, ReportURI, Compiled, RequireNonce,
                   Nonce, drawn>>

---------------------------------------------------------------------------
(* Build, MergeBuild, WithNonce. *)

\* a variant of MergeBuild that keeps its result in pp.Compiled
MergeBuildCompiledStored(compiled, result) == result

\* pp.Compiled after MergeBuild has computed the string result: MergeBuild
\* does not assign it
MergeBuildCompiled(compiled, result) == compiled

\* Policy.MergeBuild(additions), its range statement taking order
MergeBuildCall(additions, order) ==
    LET result == MergeBuildString(dirs, heap, UpgradeInsecureRequests,
                                   ReportURI, additions, order)
    IN  /\ Call("MergeBuild", additions, result, "", FALSE)
        /\ RequireNonce' = MergeBuildRequireNonce(RequireNonce, dirs, heap, additions)
        /\ Compiled' = MergeBuildCompiled(Compiled, result)
        /\ UNCHANGED <<heap, allocated, dirs, ReportURI,
                       UpgradeInsecureRequests, Nonce, drawn, built>>

MergeBuild ==
    \E additions \in Additions(Nonce), order \in Orders(DOMAIN dirs) :
        MergeBuildCall(additions, order)

\* Policy.Build(), its range statement taking order
BuildCall(order) ==
    LET compiled == MergeBuildString(dirs, heap, UpgradeInsecureRequests,
                                     ReportURI, NilDirs, order)
    IN  /\ Call("Build", NilDirs, compiled, "", FALSE)
        /\ Compiled' = compiled
        /\ RequireNonce' = MergeBuildRequireNonce(RequireNonce, dirs, heap, NilDirs)
        /\ built' = TRUE
        /\ UNCHANGED <<heap, allocated, dirs, ReportURI,
                       UpgradeInsecureRequests, Nonce, drawn>>

Build == \E order \in Orders(DOMAIN dirs) : BuildCall(order)

\* rand.Read returns an error (0) or fills b with a value not handed out yet;
\* a run draws at most MaxOps times and MaxRand is no less, so that the
\* second case is there at every draw
RandOutcomes == {0} \cup ((1..MaxRand) \ drawn)

\* a variant of WithNonce without the early return
WithNonceDrawsAlways(require) == TRUE

\* "if !pp.RequireNonce { return pp.Compiled }": whether WithNonce goes on to
\* draw a nonce
WithNonceDraws(require) == require

\* a variant of WithNonce that ignores the error of rand.Read, as the
\* earliest revision does
RandReadIgnored(r) == FALSE

\* "if _, err := rand.Read(b); err != nil { panic(...) }", r being what
\* rand.Read did: 0 is the error
RandReadPanics(r) == r = 0

\* a variant of WithNonce that never builds
WithNonceBuildsNever(compiled) == FALSE

\* "if pp.Compiled == "" { pp.Build() }"
WithNonceBuilds(compiled) == compiled = ""

\* a variant of WithNonce that keeps the substituted string in pp.Compiled
WithNonceCompiledCached(compiled, result) == result

\* pp.Compiled after WithNonce has computed the string result: WithNonce
\* does not assign it (Build, if WithNonce ran it, has)
WithNonceCompiled(compiled, result) == compiled

\* Policy.WithNonce(&nonce), nonce a fresh empty string of the caller; order
\* is the order of the range statement if WithNonce has to Build, r is what
\* rand.Read does if it is called
WithNonceCall(order, r) ==
    LET build == WithNonceBuilds(Compiled)
        compiled == IF build
                    THEN MergeBuildString(dirs, heap, UpgradeInsecureRequests,
                                          ReportURI, NilDirs, order)
                    ELSE Compiled
        require == IF build
                   THEN MergeBuildRequireNonce(RequireNonce, dirs, heap, NilDirs)
                   ELSE RequireNonce
        token == RawURLEncoding(RandValue(r))
        result == ReplaceAll(compiled, Nonce, "'nonce-" \o token \o "'")
    IN  /\ RequireNonce' = require
        /\ built' = (built \/ build)
        /\ \/ /\ ~WithNonceDraws(require)
              /\ Call("WithNonce", NilDirs, compiled, "", FALSE)
              /\ Compiled' = WithNonceCompiled(compiled, compiled)
              /\ drawn' = drawn
           \/ /\ WithNonceDraws(require)
              /\ RandReadPanics(r)
              /\ Call("WithNonce", NilDirs, "", "", TRUE)
              /\ Compiled' = compiled
              /\ drawn' = drawn
           \/ /\ WithNonceDraws(require)
              /\ ~RandReadPanics(r)
              /\ Call("WithNonce", NilDirs, result, token, FALSE)
              /\ Compiled' = WithNonceCompiled(compiled, result)
              /\ drawn' = drawn \cup {r}
        /\ UNCHANGED <<heap, allocated, dirs, ReportURI,
                       UpgradeInsecureRequests, Nonce>>

WithNonce ==
    \E order \in (IF Compiled = "" THEN Orders(DOMAIN dirs) ELSE {<<>>}),
       r \in RandOutcomes :
        WithNonceCall(order, r)

---------------------------------------------------------------------------
(* The specification: any sequence of calls on one policy, one at a time. *)

Next ==
    \/ \E name \in Names, sources \in {<<>>, <<"cdn.jsdelivr.net", Nonce>>} :
           PolicyNew(name, sources)
    \/ \E name \in Names, id \in DOMAIN heap : PolicyWith(name, id)
    \/ \E name \in Names : PolicyRemove(name)
    \/ \E id \in DOMAIN heap, sources \in SourceLists(Nonce) :
           DirectiveAdd(id, sources)
    \/ \E id \in DOMAIN heap, ht \in HashTypes : DirectiveHash(id, ht, "doSomething()")
    \/ \E uri \in ReportURIs : SetReportURI(uri)
    \/ \E b \in BOOLEAN : SetUpgradeInsecureRequests(b)
    \/ Build
    \/ MergeBuild
    \/ WithNonce

Spec == Init /\ [][Next]_vars

---------------------------------------------------------------------------
(* Goroutines that share one built policy, as the request handlers of the
   middleware do: each calls WithNonce or MergeBuild, and the calls
   interleave at their reads and writes of the policy's fields. The
   statement "pp.RequireNonce = pp.RequireNonce || d.requireNonce" is a read
   and a write with nothing to keep them together: a goroutine may store a
   value computed from what it read before another goroutine's store. *)

\* the policies the service configures before it starts to serve:
\* New(script-src, ...) alone or after With(default-src, SelfDirective)
ServedPolicies ==
    {[heap |-> <<[sources |-> <<Self>>, requireNonce |-> FALSE],
                 [sources |-> <<None>>, requireNonce |-> FALSE],
                 Add(EmptyDirective, sources, DefaultNonce)>>,
      dirs |-> [name \in names |->
                   IF name = Script THEN 3 ELSE SelfDirective]] :
        sources \in SourceLists(DefaultNonce),
        names \in {{Script}, {Default, Script}}}

\* the state after the service has configured the policy and called Build
InitConc ==
    \E pol \in ServedPolicies : \E order \in Orders(DOMAIN pol.dirs) :
        /\ heap = pol.heap
        /\ allocated = 1
        /\ dirs = pol.dirs
        /\ ReportURI = ""
        /\ UpgradeInsecureRequests = FALSE
        /\ Compiled = MergeBuildString(pol.dirs, pol.heap, FALSE, "", NilDirs, order)
        /\ RequireNonce = MergeBuildRequireNonce(FALSE, pol.dirs, pol.heap, NilDirs)
        /\ Nonce = DefaultNonce
        /\ drawn = {}
        /\ lastOp = "Build"
        /\ arg = NilDirs
        /\ ret = MergeBuildString(pol.dirs, pol.heap, FALSE, "", NilDirs, order)
        /\ nonce = ""
        /\ panicked = FALSE
        /\ built = TRUE
        /\ ops = 0
        /\ calls = [t \in Goroutines |-> Idle]
        /\ request = NoRequest

\* the calls that have been entered and have not returned
InFlight == {t \in Goroutines : calls[t].pc # "idle"}

\* goroutine t enters a call: at most MaxConcurrentOps calls are made
Enter(t) ==
    /\ calls[t].pc = "idle"
    /\ ops + Cardinality(InFlight) < MaxConcurrentOps

\* goroutine t returns from its call
Return(t, op, additions, r, n, p) ==
    /\ ops' = ops + 1
    /\ lastOp' = op
    /\ arg' = additions
    /\ ret' = r
    /\ nonce' = n
    /\ panicked' = p
    /\ calls' = [calls EXCEPT ![t] = Idle]
    /\ request' = request

\* MergeBuild up to the call of writeDirs: "pp.RequireNonce = false"; order
\* is the order the range statement of writeDirs is going to take
MergeBuildEnter(t, additions, order) ==
    /\ Enter(t)
    /\ RequireNonce' = FALSE
    /\ calls' = [calls EXCEPT ![t] = [pc |-> "writeDirs", additions |-> additions,
                                      order |-> order, i |-> 1, sb |-> "",
                                      rn |-> FALSE]]
    /\ UNCHANGED <<heap, allocated, dirs, ReportURI, UpgradeInsecureRequests,
                   Compiled, Nonce, drawn, lastOp, arg, ret, nonce, panicked,
                   built, ops, request>>

\* "pp.RequireNonce || d.requireNonce", rn being the value of pp.RequireNonce
\* the statement has read
orRequireNonce(rn, d) == rn \/ d.requireNonce

\* an iteration of the loop of writeDirs up to the read of pp.RequireNonce in
\* "pp.RequireNonce = pp.RequireNonce || d.requireNonce": the goroutine holds
\* the value it has read in rn. The builder belongs to the call alone, so
\* that the text of the whole iteration is appended here.
MergeBuildReadRequireNonce(t) ==
    LET c == calls[t]
    IN  /\ c.pc = "writeDirs"
        /\ c.i <= Len(c.order)
        /\ calls' = [calls EXCEPT ![t].pc = "330",
                                  ![t].rn = RequireNonce,
                                  ![t].sb = c.sb \o writeDir(dirs, heap, c.additions,
                                                             c.order[c.i])]
        /\ UNCHANGED <<heap, allocated, dirs, ReportURI, UpgradeInsecureRequests,
                       Compiled, RequireNonce, Nonce, drawn, lastOp, arg, ret,
                       nonce, panicked, built, ops, request>>

\* the assignment of that statement: what it stores is computed from the
\* value read before, whatever other goroutines have stored since. The
\* iteration goes on to the addition under the same name if there is one
\* and ends if there is none.
MergeBuildWriteRequireNonce(t) ==
    LET c == calls[t]
        name == c.order[c.i]
    IN  /\ c.pc = "330"
        /\ RequireNonce' = orRequireNonce(c.rn, heap[dirs[name]])
        /\ calls' = IF name \in DOMAIN c.additions
                    THEN [calls EXCEPT ![t].pc = "337"]
                    ELSE [calls EXCEPT ![t].pc = "writeDirs", ![t].i = c.i + 1]
        /\ UNCHANGED <<heap, allocated, dirs, ReportURI, UpgradeInsecureRequests,
                       Compiled, Nonce, drawn, lastOp, arg, ret, nonce,
                       panicked, built, ops, request>>

\* the read of pp.RequireNonce in the same statement for the addition
MergeBuildReadAddition(t) ==
    LET c == calls[t]
    IN  /\ c.pc = "337"
        /\ calls' = [calls EXCEPT ![t].pc = "337store", ![t].rn = RequireNonce]
        /\ UNCHANGED <<heap, allocated, dirs, ReportURI, UpgradeInsecureRequests,
                       Compiled, RequireNonce, Nonce, drawn, lastOp, arg, ret,
                       nonce, panicked, built, ops, request>>

\* its assignment, which ends the iteration
MergeBuildWriteAddition(t) ==
    LET c == calls[t]
    IN  /\ c.pc = "337store"
        /\ RequireNonce' = orRequireNonce(c.rn, c.additions[c.order[c.i]])
        /\ calls' = [calls EXCEPT ![t].pc = "writeDirs", ![t].i = c.i + 1]
        /\ UNCHANGED <<heap, allocated, dirs, ReportURI, UpgradeInsecureRequests,
                       Compiled, Nonce, drawn, lastOp, arg, ret, nonce,
                       panicked, built, ops, request>>

\* MergeBuild after writeDirs
MergeBuildReturn(t) ==
    LET c == calls[t]
        result == MergeBuildFinish(c.sb, UpgradeInsecureRequests, ReportURI)
    IN  /\ c.pc = "writeDirs"
        /\ c.i > Len(c.order)
        /\ Return(t, "MergeBuild", c.additions, result, "", FALSE)
        /\ Compiled' = MergeBuildCompiled(Compiled, result)
        /\ UNCHANGED <<heap, allocated, dirs, ReportURI, UpgradeInsecureRequests,
                       RequireNonce, Nonce, drawn, built>>

\* WithNonce up to the read of pp.RequireNonce in "if !pp.RequireNonce": the
\* call goes on to "return pp.Compiled" or to rand.Read by the value it has
\* read, whatever other goroutines store afterwards. The served policies
\* have a Compiled that is not empty, so that Build is not called.
WithNonceEnter(t) ==
    /\ Enter(t)
    /\ Compiled # ""
    /\ calls' = [calls EXCEPT ![t].pc = IF WithNonceDraws(RequireNonce)
                                        THEN "rand.Read" ELSE "356",
                              ![t].rn = RequireNonce]
    /\ UNCHANGED <<heap, allocated, dirs, ReportURI, UpgradeInsecureRequests,
                   Compiled, RequireNonce, Nonce, drawn, lastOp, arg, ret,
                   nonce, panicked, built, ops, request>>

\* "return pp.Compiled" of a WithNonce that has read pp.RequireNonce as false
WithNonceReturnCompiled(t) ==
    /\ calls[t].pc = "356"
    /\ Return(t, "WithNonce", NilDirs, Compiled, "", FALSE)
    /\ UNCHANGED <<heap, allocated, dirs, ReportURI, UpgradeInsecureRequests,
                   Compiled, RequireNonce, Nonce, drawn, built>>

\* WithNonce from rand.Read on; r is what rand.Read does
WithNonceReturn(t, r) ==
    LET token == RawURLEncoding(RandValue(r))
        result == ReplaceAll(Compiled, Nonce, "'nonce-" \o token \o "'")
    IN  /\ calls[t].pc = "rand.Read"
        /\ \/ /\ RandReadPanics(r)
              /\ Return(t, "WithNonce", NilDirs, "", "", TRUE)
              /\ drawn' = drawn
           \/ /\ ~RandReadPanics(r)
              /\ Return(t, "WithNonce", NilDirs, result, token, FALSE)
              /\ drawn' = drawn \cup {r}
        /\ Compiled' = WithNonceCompiled(Compiled, result)
        /\ UNCHANGED <<heap, allocated, dirs, ReportURI, UpgradeInsecureRequests,
                       RequireNonce, Nonce, built>>

NextConc ==
    \/ \E t \in Goroutines, additions \in RequestAdditions(Nonce),
          order \in Orders(DOMAIN dirs) :
           MergeBuildEnter(t, additions, order)
    \/ \E t \in Goroutines : MergeBuildReadRequireNonce(t)
    \/ \E t \in Goroutines : MergeBuildWriteRequireNonce(t)
    \/ \E t \in Goroutines : MergeBuildReadAddition(t)
    \/ \E t \in Goroutines : MergeBuildWriteAddition(t)
    \/ \E t \in Goroutines : MergeBuildReturn(t)
    \/ \E t \in Goroutines : WithNonceEnter(t)
    \/ \E t \in Goroutines : WithNonceReturnCompiled(t)
    \/ \E t \in Goroutines, r \in RandOutcomes : WithNonceReturn(t, r)

SpecConc == InitConc /\ [][NextConc]_vars

---------------------------------------------------------------------------
(* One directive at a time: the calls that fill a directive and
   Directive.String, which renders it with Directive.write. *)

\* d.String()
DirectiveString(id) ==
    /\ Call("Directive.String", NilDirs, write(heap[id]), "", FALSE)
    /\ UNCHANGED <<heap, allocated, dirs, ReportURI, UpgradeInsecureRequests,
                   Compiled, RequireNonce, Nonce, drawn, built>>

\* the directives pol.New has made
Allocated == {id \in DOMAIN heap : ~AddPanics(id)}

NextDirective ==
    \/ \E sources \in {<<>>} \cup DirectiveSourceLists(Nonce) :
           PolicyNew(Script, sources)
    \/ \E id \in Allocated, sources \in DirectiveSourceLists(Nonce) :
           DirectiveAdd(id, sources)
    \/ \E id \in Allocated, ht \in DirectiveHashTypes, source \in HashSources :
           DirectiveHash(id, ht, source)
    \/ \E id \in DOMAIN heap : DirectiveString(id)

SpecDirective == Init /\ [][NextDirective]_vars

---------------------------------------------------------------------------
(* Vocabulary of the properties. *)

\* the directive was configured with the Nonce source
RequestsNonce(d) == \E i \in 1..Len(d.sources) : d.sources[i] = Nonce

\* some directive stored in the policy requests a nonce
AnyRequestsNonce == \E name \in DOMAIN dirs : RequestsNonce(heap[dirs[name]])

\* the step is a call of op (every call counts in ops)
Called(op) == ops' = ops + 1 /\ lastOp' = op

\* the token made of the k-th random value
Token(k) == RawURLEncoding(RandValue(k))

\* the strings Build can return in the current state
BuildResults ==
    {MergeBuildString(dirs, heap, UpgradeInsecureRequests, ReportURI, NilDirs, order) :
        order \in Orders(DOMAIN dirs)}

\* text is one of the ";"-separated parts of the policy string s
HasPart(s, text) == Contains(";" \o s \o ";", ";" \o text \o ";")

\* Policy.dirs after Starter()
StarterDirs ==
    [name \in {Default, BaseURI, Script, Connect, Img, Style, Form} |->
        IF name = Default THEN NoneDirective ELSE SelfDirective]

\* the order of the directives in the comment on Starter
StarterOrder == <<Default, Script, Connect, Img, Style, BaseURI, Form>>

---------------------------------------------------------------------------
(* C1: Build is idempotent: a Build that follows a Build, nothing having
   been changed in between, returns the same string and leaves the same
   Compiled and RequireNonce, whatever order the directives are visited in. *)
C1_BuildIdempotent ==
    [][(lastOp = "Build" /\ Called("Build"))
         => (ret' = ret /\ Compiled' = Compiled /\ RequireNonce' = RequireNonce)]_vars

(* C3: on a built policy in which a directive requests a nonce, RequireNonce
   is true, and a WithNonce that returns gives a string that contains
   'nonce-<token>' for the token it hands to the caller and that differs
   from Compiled. *)
C3_NonceGating ==
    (built /\ AnyRequestsNonce)
      => /\ RequireNonce
         /\ (lastOp = "WithNonce" /\ ~panicked)
              => /\ nonce # ""
                 /\ Contains(ret, "'nonce-" \o nonce \o "'")
                 /\ ret # Compiled

C3_Witness ==
    /\ built /\ AnyRequestsNonce
    /\ lastOp = "WithNonce" /\ ~panicked
    /\ Contains(ret, "'nonce-" \o nonce \o "'")

(* C4: after Build, RequireNonce is true exactly if a directive stored in
   the policy requests a nonce; a Build after the last such directive was
   removed or replaced leaves it false. *)
C4_RequireNonceIffRequested ==
    lastOp = "Build" => (RequireNonce <=> AnyRequestsNonce)

\* a nonce was issued earlier, so RequireNonce has been true, and Build has
\* left it false
C4_Witness ==
    lastOp = "Build" /\ drawn # {} /\ ~RequireNonce /\ ~AnyRequestsNonce

(* C5: a WithNonce that finds RequireNonce false returns Compiled as it is,
   leaves the caller's token empty and draws no randomness. *)
C5_NoNonceNoRandomness ==
    [][(Called("WithNonce") /\ ~RequireNonce')
         => /\ ~panicked'
            /\ ret' = Compiled'
            /\ (Compiled # "" => Compiled' = Compiled)
            /\ nonce' = ""
            /\ drawn' = drawn]_vars

C5_Witness ==
    lastOp = "WithNonce" /\ ~RequireNonce /\ Compiled # "" /\ ret = Compiled

(* C6: on a built policy that requires a nonce, WithNonce leaves Compiled
   (still holding the placeholder), RequireNonce and the directives as they
   are; the string it returns holds no token of an earlier call, and its
   token does not occur in the string the call before it returned. *)
C6_NonceFreshNotCached ==
    [][(Called("WithNonce") /\ built /\ AnyRequestsNonce)
         => /\ Compiled' = Compiled
            /\ Contains(Compiled', Nonce)
            /\ RequireNonce' = RequireNonce
            /\ heap' = heap /\ dirs' = dirs
            /\ ~panicked'
                 => /\ \A k \in drawn : ~Contains(ret', Token(k))
                    /\ lastOp = "WithNonce" => ~Contains(ret, nonce')]_vars

\* two nonces have been issued, the second right after the first
C6_Witness ==
    /\ built /\ AnyRequestsNonce
    /\ lastOp = "WithNonce" /\ ~panicked
    /\ Cardinality(drawn) >= 2
    /\ Contains(ret, "'nonce-" \o nonce \o "'")

(* C7: MergeBuild leaves Compiled and every stored directive as they were
   before the call, whatever the additions. *)
C7_MergeBuildNoMutation ==
    [][Called("MergeBuild")
         => (Compiled' = Compiled /\ heap' = heap /\ dirs' = dirs)]_vars

C7_Witness ==
    /\ lastOp = "MergeBuild"
    /\ Compiled # "" /\ ret # Compiled
    /\ DOMAIN arg \cap DOMAIN dirs # {}

(* C8: for every name in both the policy and the additions, MergeBuild emits
   "<name> <static sources> <additional sources>" as one directive of its
   result. *)
C8_MergeAppendsAdditions ==
    lastOp = "MergeBuild"
      => \A name \in DOMAIN dirs \cap DOMAIN arg :
            HasPart(ret, name \o " " \o write(heap[dirs[name]])
                              \o " " \o write(arg[name]))

C8_Witness ==
    /\ lastOp = "MergeBuild"
    /\ \E name \in DOMAIN dirs \cap DOMAIN arg :
          /\ Len(heap[dirs[name]].sources) > 0
          /\ Len(arg[name].sources) > 0
          /\ HasPart(ret, name \o " " \o write(heap[dirs[name]])
                               \o " " \o write(arg[name]))

(* C9: MergeBuild emits no directive under a name that only the additions
   have, and when the additions share no name with the policy its result is
   a result of Build. *)
C9_AdditionOnlyNamesIgnored ==
    lastOp = "MergeBuild"
      => /\ \A name \in DOMAIN arg \ DOMAIN dirs :
               ~Contains(";" \o ret, ";" \o name \o " ")
         /\ (DOMAIN arg \cap DOMAIN dirs = {}) => ret \in BuildResults

C9_Witness ==
    /\ lastOp = "MergeBuild"
    /\ DOMAIN dirs # {}
    /\ DOMAIN arg # {}
    /\ DOMAIN arg \cap DOMAIN dirs = {}
    /\ ret \in BuildResults

(* C10: the shared directives are never changed: SelfDirective renders
   'self', NoneDirective renders 'none', and a Starter() policy builds to
   the starter defaults. *)
C10_SingletonsImmutable ==
    /\ heap[SelfDirective].sources = <<Self>>
    /\ heap[NoneDirective].sources = <<None>>
    /\ write(heap[SelfDirective]) = "'self'"
    /\ write(heap[NoneDirective]) = "'none'"
    /\ MergeBuildString(StarterDirs, heap, FALSE, "", NilDirs, StarterOrder)
         = "default-src 'none';script-src 'self';connect-src 'self';"
           \o "img-src 'self';style-src 'self';base-uri 'self';"
           \o "form-action 'self'"

(* C2: on a built policy, WithNonce and MergeBuild calls of several
   goroutines return what they return when they run alone: a WithNonce that
   returns on a policy in which a directive requests a nonce gives a
   non-empty token and Compiled with the token in the place of every
   placeholder, whatever the other goroutines are in the middle of. *)
C2_ConcurrentCallsAsAlone ==
    (built /\ AnyRequestsNonce /\ lastOp = "WithNonce" /\ ~panicked)
      => /\ nonce # ""
         /\ ret = ReplaceAll(Compiled, Nonce, "'nonce-" \o nonce \o "'")
         /\ ~Contains(ret, Nonce)

\* s ends with a ";"
EndsWithSemicolon(s) == Len(s) > 0 /\ SubSeq(s, Len(s), Len(s)) = ";"

(* C11: the string Build or MergeBuild returns, and Compiled, never holds
   two ";" in a row and never ends with ";", whatever the directives, the
   sources, UpgradeInsecureRequests and ReportURI are. *)
C11_WellFormed ==
    /\ ~Contains(Compiled, ";;") /\ ~EndsWithSemicolon(Compiled)
    /\ lastOp \in {"Build", "MergeBuild"}
         => (~Contains(ret, ";;") /\ ~EndsWithSemicolon(ret))

\* Build has cut the ";" after upgrade-insecure-requests
C11_Witness ==
    /\ lastOp = "Build"
    /\ DOMAIN dirs # {}
    /\ UpgradeInsecureRequests /\ ReportURI = ""
    /\ Compiled = ret
    /\ Contains(ret, ";upgrade-insecure-requests")

(* C12: when the policy has a default-src directive, the string Build
   returns starts with it: no other directive comes before default-src. *)
C12_DefaultSrcFirst ==
    (lastOp = "Build" /\ Default \in DOMAIN dirs)
      => HasPrefixAt(ret, 1, Default \o " ")

\* the sources of directive d, as a set
SourceSet(d) == {d.sources[i] : i \in 1..Len(d.sources)}

\* the keyword and scheme sources in the order the specification fixes,
\* the nonce placeholder first
KeywordOrder ==
    <<Nonce, StrictDynamic, Self, UnsafeInline, UnsafeEval,
      UnsafeAllowRedirects, UnsafeHashes, Blob, Data, Mediastream, Filesystem>>

IsKeyword(s) == \E i \in 1..Len(KeywordOrder) : KeywordOrder[i] = s

\* the keyword sources of d in the fixed order, each once, then the other
\* sources of d in the order they were added
KeywordsFirst(d) ==
    LET Present(k) == k \in SourceSet(d)
        Other(s) == ~IsKeyword(s)
    IN  SelectSeq(KeywordOrder, Present) \o SelectSeq(d.sources, Other)

(* C13: a directive that has the source All renders as exactly "*",
   whatever else it holds, and a directive without any source renders as
   exactly 'none'. *)
C13_AllNoneShortCircuit ==
    lastOp = "Directive.String"
      => \A id \in DOMAIN heap :
            ret = write(heap[id])
              => /\ All \in SourceSet(heap[id]) => ret = "*"
                 /\ heap[id].sources = <<>> => ret = "'none'"

(* C14: a directive that is neither All nor empty renders its keyword and
   scheme sources first, in the fixed order nonce placeholder,
   strict-dynamic, self, unsafe-inline, unsafe-eval, unsafe-allow-redirects,
   unsafe-hashes, blob:, data:, mediastream:, filesystem:, each once, and
   its other sources after them. *)
C14_FixedKeywordOrder ==
    lastOp = "Directive.String"
      => \A id \in DOMAIN heap :
            (/\ ret = write(heap[id])
             /\ All \notin SourceSet(heap[id])
             /\ heap[id].sources # <<>>)
              => ret = write([heap[id] EXCEPT !.sources = KeywordsFirst(heap[id])])

\* the place of the i-th source in the rendering of sources, the sources
\* being separated by one character
RECURSIVE Offset(_, _)
Offset(sources, i) ==
    IF i = 1 THEN 1
    ELSE Offset(sources, i - 1) + Len(sources[i - 1]) + 1

\* s is the sources, verbatim, in their order, one space between two
Verbatim(sources, s) ==
    LET n == Len(sources)
    IN  /\ Len(s) = Offset(sources, n) + Len(sources[n]) - 1
        /\ \A i \in 1..n :
              /\ SubSeq(s, Offset(sources, i),
                        Offset(sources, i) + Len(sources[i]) - 1) = sources[i]
              /\ i < n => SubSeq(s, Offset(sources, i) + Len(sources[i]),
                                 Offset(sources, i) + Len(sources[i])) = " "

\* the step changes no directive but id
OnlyChanges(id) ==
    /\ DOMAIN heap' = DOMAIN heap \cup {id}
    /\ \A other \in DOMAIN heap \ {id} : heap'[other] = heap[other]

(* C15: the sources of a directive are the sources it was given, in the
   order of the calls: New starts the list with its sources, Add appends
   its sources, Hash appends its literal, and String renders the list
   verbatim, in that order, with one space between two sources, changing
   nothing. *)
C15_SourcesInInsertionOrder ==
    [][/\ Called("Policy.New")
            => /\ Len(heap') = Len(heap) + 1
               /\ heap'[Len(heap')].sources = arg'
               /\ OnlyChanges(Len(heap'))
               /\ dirs'[Script] = Len(heap')
       /\ (Called("Directive.Add") /\ ~panicked')
            => \E id \in DOMAIN heap :
                  /\ heap'[id].sources = heap[id].sources \o arg'
                  /\ OnlyChanges(id)
       /\ (Called("Directive.Hash") /\ ~panicked')
            => \E id \in DOMAIN heap :
                  /\ heap'[id].sources
                       = heap[id].sources \o <<hash(arg'.ht, arg'.source)>>
                  /\ OnlyChanges(id)
       /\ Called("Directive.String")
            => /\ heap' = heap
               /\ \E id \in DOMAIN heap :
                     /\ ret' = write(heap[id])
                     /\ heap[id].sources # <<>> => Verbatim(heap[id].sources, ret')
               /\ \A id \in DOMAIN heap :
                     (ret' = write(heap[id]) /\ heap[id].sources # <<>>)
                        => Verbatim(heap[id].sources, ret')]_vars

\* a directive filled by New, Hash and Add, in that order, has been rendered
C15_Witness ==
    /\ lastOp = "Directive.String"
    /\ \E id \in Allocated :
          /\ ret = write(heap[id])
          /\ Len(heap[id].sources) >= 4
          /\ heap[id].sources[1] = Self
          /\ HasPrefixAt(heap[id].sources[3], 1, "'sha")
          /\ heap[id].sources[Len(heap[id].sources)] = StrictDynamic

---------------------------------------------------------------------------
\* the ";"-separated parts of s from index i on
RECURSIVE SplitFrom(_, _)
SplitFrom(s, i) ==
    LET j == IndexFrom(s, i, ";")
    IN  IF j = 0 THEN <<SubSeq(s, i, Len(s))>>
        ELSE <<SubSeq(s, i, j - 1)>> \o SplitFrom(s, j + 1)

\* the ";"-separated parts of the policy string s
Parts(s) == IF s = "" THEN <<>> ELSE SplitFrom(s, 1)

\* the parts of s that are a directive called name
PartsNamed(s, name) ==
    {i \in 1..Len(Parts(s)) : HasPrefixAt(Parts(s)[i], 1, name \o " ")}

\* dirs' differs from dirs at most at name
OnlyStores(name) ==
    /\ DOMAIN dirs' \ {name} = DOMAIN dirs \ {name}
    /\ \A n \in DOMAIN dirs \ {name} : dirs'[n] = dirs[n]

(* C16: directives are upserted by name. New and With leave under the name
   the directive they were called with and nothing else changes in the
   policy's map; Remove takes the name out; no other call changes the map.
   Build's string has, for every name of the map, exactly one part, which is
   the name followed by the rendering of the directive stored last under it,
   and has no part for a name that is not in the map. *)
C16_UpsertByName ==
    [][/\ Called("Policy.New")
            => \E name \in Names :
                   /\ OnlyStores(name)
                   /\ name \in DOMAIN dirs'
                   /\ dirs'[name] = Len(heap')
                   /\ Len(heap') = Len(heap) + 1
       /\ Called("Policy.With")
            => \E name \in Names, id \in DOMAIN heap :
                   /\ OnlyStores(name)
                   /\ name \in DOMAIN dirs'
                   /\ dirs'[name] = id
       /\ Called("Policy.Remove")
            => \E name \in Names : OnlyStores(name) /\ name \notin DOMAIN dirs'
       /\ (ops' = ops + 1 /\ lastOp' \notin {"Policy.New", "Policy.With", "Policy.Remove"})
            => dirs' = dirs
       /\ Called("Build")
            => /\ \A name \in DOMAIN dirs :
                      /\ Cardinality(PartsNamed(ret', name)) = 1
                      /\ HasPart(ret', name \o " " \o write(heap[dirs[name]]))
               /\ \A name \in Names \ DOMAIN dirs : PartsNamed(ret', name) = {}]_vars

\* Build has run on a policy in which two directives were made by New and one
\* name is left, holding a directive that renders differently from the
\* first one made: the name was replaced, or the other name removed
C16_Witness ==
    /\ lastOp = "Build"
    /\ allocated >= 2
    /\ \E name \in Names :
           /\ DOMAIN dirs = {name}
           /\ dirs[name] > 3
           /\ write(heap[dirs[name]]) # write(heap[3])
           /\ ret = name \o " " \o write(heap[dirs[name]])

---------------------------------------------------------------------------
\* the parts joined by single ";", from part i on
RECURSIVE JoinParts(_, _)
JoinParts(parts, i) ==
    IF i > Len(parts) THEN ""
    ELSE parts[i] \o (IF i < Len(parts) THEN ";" ELSE "") \o JoinParts(parts, i + 1)

\* the directive parts of a policy string, the names taken in order
DirectiveParts(order) ==
    [i \in 1..Len(order) |-> order[i] \o " " \o write(heap[dirs[order[i]]])]

\* the parts of the global flags: upgrade-insecure-requests, then report-uri
GlobalParts ==
    (IF UpgradeInsecureRequests THEN <<"upgrade-insecure-requests">> ELSE <<>>)
    \o (IF ReportURI # "" THEN <<"report-uri " \o ReportURI>> ELSE <<>>)

(* C17: the string Build returns is, for some order of the policy's
   directives, the parts "<name> <source-list>", then
   "upgrade-insecure-requests" iff UpgradeInsecureRequests is set, then
   "report-uri <ReportURI>" iff ReportURI is not empty, joined by single ";"
   with no separator at the end. Build of a policy without directives does
   not panic and returns the parts of the global flags only, the empty
   string if none is set. *)
C17_HeaderGrammar ==
    lastOp = "Build"
        => /\ ~panicked
           /\ \E order \in Orders(DOMAIN dirs) :
                  ret = JoinParts(DirectiveParts(order) \o GlobalParts, 1)
           /\ DOMAIN dirs = {} => ret = JoinParts(GlobalParts, 1)
           /\ (DOMAIN dirs = {} /\ ~UpgradeInsecureRequests /\ ReportURI = "")
                  => ret = ""

\* Build has returned a directive, upgrade-insecure-requests and report-uri
C17_Witness ==
    /\ lastOp = "Build"
    /\ DOMAIN dirs # {}
    /\ UpgradeInsecureRequests
    /\ ReportURI # ""
    /\ \E name \in DOMAIN dirs :
           ret = name \o " " \o write(heap[dirs[name]])
                 \o ";upgrade-insecure-requests;report-uri " \o ReportURI

\* Build has run on a policy without directives and returned only
\* upgrade-insecure-requests
C17_EmptyPolicyReached ==
    lastOp = "Build" /\ DOMAIN dirs = {} /\ ret = "upgrade-insecure-requests"

---------------------------------------------------------------------------
(* C18: Hash called with a hash type that is none of SHA256, SHA384, SHA512
   panics in the call and appends nothing: no directive changes, none gets a
   literal without a digest. *)
C18_InvalidHashTypeFatal ==
    [][(Called("Directive.Hash") /\ arg'.ht \notin {SHA256, SHA384, SHA512})
           => /\ panicked'
              /\ heap' = heap
              /\ \A id \in DOMAIN heap' : "'sha'" \notin SourceSet(heap'[id])]_vars

\* Hash has been called with an invalid hash type on a directive that has
\* sources
C18_Witness ==
    /\ lastOp = "Directive.Hash"
    /\ arg.ht = InvalidHashType
    /\ panicked
    /\ \E id \in Allocated : Len(heap[id].sources) >= 2

---------------------------------------------------------------------------
(* C19: a WithNonce call on a policy that requires a nonce either gets a
   fresh value of the random source, and then returns the header with the
   token made of that value and hands that token back, or gets none, and then
   panics: it returns no string and hands back no token. No call returns a
   header with an empty token, a token that is not made of a value the source
   gave, or the placeholder left in place. *)
C19_RandFailureFatal ==
    [][(Called("WithNonce") /\ RequireNonce')
           => /\ drawn' = drawn => (panicked' /\ ret' = "" /\ nonce' = "")
              /\ panicked' => (drawn' = drawn /\ ret' = "" /\ nonce' = "")
              /\ ~panicked'
                    => \E k \in (1..MaxRand) \ drawn :
                           /\ drawn' = drawn \cup {k}
                           /\ nonce' = Token(k)
                           /\ nonce' # ""
                           /\ ret' = ReplaceAll(Compiled', Nonce, "'nonce-" \o Token(k) \o "'")
                           /\ ~Contains(ret', Nonce)]_vars

\* WithNonce has panicked on a policy whose script-src asks for a nonce
C19_Witness ==
    /\ lastOp = "WithNonce"
    /\ panicked
    /\ RequireNonce
    /\ AnyRequestsNonce
    /\ Contains(Compiled, Nonce)
    /\ ret = ""
    /\ nonce = ""

---------------------------------------------------------------------------
\* the literals of the scripts Hash is given, as sha256sum, sha384sum and
\* sha512sum followed by base64 give them; the SHA-512 literal of
\* doSomething() is the one of the README and of TestNonce
KnownLiterals ==
    {<<SHA256, "doSomething()",
       "'sha256-bnQkgwAfjTxnZSlFxZe1ogJadBHLnRuuL54WC+v+tMY='">>,
     <<SHA384, "doSomething()",
       "'sha384-dSqwbwJ4vxDFs8ne2pSOBhHNwihu/KRzIyGFwWxPxkg5JENkalTS+CojHexZI3wT'">>,
     <<SHA512, "doSomething()",
       "'sha512-NrS2FABurNzIW2yTKRxF8X+HMhJh29vd9syOLut1MW4Cd1JeGzZqughLzC+LQr0O8XFhCuR4zyjLgrTQct7jAA=='">>,
     <<SHA256, "doSomething();",
       "'sha256-RFWPLDbv2BY+rCkDzsE+0fr8ylGr2R2faWMhq4lfEQc='">>,
     <<SHA384, "doSomething();",
       "'sha384-AoWO2NN+PGpt3TudulLbvGyFVcFxsRkrmg9v0ShvWAB8VuPrr1UBL1hyq+XDuBAD'">>,
     <<SHA512, "doSomething();",
       "'sha512-JmJZZcyblZQCHlZRsKDDtflAYSRkis0qyVDld8GYYgE33OHeq29ups1mbWGRG5YsUJA8XlUFLdqMMpEYX5m9WA=='">>}

\* the literal known for (ht, source)
KnownLiteral(ht, source) ==
    CHOOSE lit \in {k[3] : k \in {k \in KnownLiterals : k[1] = ht /\ k[2] = source}} : TRUE

(* C20: Hash with SHA256, SHA384 or SHA512 appends exactly one source at the
   end of the directive it is called on: the literal 'sha<bits>-<padded
   standard base64 of the digest of the script>', quotes included. The
   sources the directive had stay as they were and in order, no other
   directive changes, and the literal is the one known for the hash type and
   the script, whatever the directive held. *)
C20_HashAppendsLiteral ==
    [][(Called("Directive.Hash") /\ arg'.ht \in {SHA256, SHA384, SHA512})
           => /\ ~panicked'
              /\ \E id \in DOMAIN heap :
                     /\ heap'[id].sources
                          = heap[id].sources \o <<KnownLiteral(arg'.ht, arg'.source)>>
                     /\ heap'[id].requireNonce = heap[id].requireNonce
                     /\ OnlyChanges(id)]_vars

\* Hash(SHA512, "doSomething()") has appended the literal of the README to
\* a directive that had sources
C20_Witness ==
    /\ lastOp = "Directive.Hash"
    /\ ~panicked
    /\ arg = [ht |-> SHA512, source |-> "doSomething()"]
    /\ \E id \in Allocated :
           /\ Len(heap[id].sources) >= 2
           /\ heap[id].sources[Len(heap[id].sources)]
                = "'sha512-NrS2FABurNzIW2yTKRxF8X+HMhJh29vd9syOLut1MW4Cd1JeGzZqughLzC+LQr0O8XFhCuR4zyjLgrTQct7jAA=='"

---------------------------------------------------------------------------
(* The middleware: csphandler.ContentSecurityPolicy (net/http) and
   gincsp.ContentSecurityPolicy (gin) serving requests with one policy, one
   request at a time. The downstream handler reads the nonce, registers
   hashes and sources for the request, and writes the body. The variable
   request holds the locals of the handler func (csp, nonce), the additions
   map of the request (the value under cspDirsMapKey in the gin context, the
   field m of cspResponseWriter), and what has become of the response. *)

\* calls the downstream handler makes in one request
MaxHandlerSteps == 3

\* the two middlewares
Middlewares == {"gin", "http"}

\* the policies served: the ones of the tests, and a policy without directives
ServePolicies ==
    ServedPolicies
    \cup {[heap |-> <<[sources |-> <<Self>>, requireNonce |-> FALSE],
                      [sources |-> <<None>>, requireNonce |-> FALSE]>>,
           dirs |-> NilDirs]}

\* the state after ContentSecurityPolicy(pol, ...) has returned the handler
\* func: it has called pol.Build()
InitServe ==
    \E pol \in ServePolicies, mw \in Middlewares :
      \E order \in Orders(DOMAIN pol.dirs) :
        /\ heap = pol.heap
        /\ allocated = Len(pol.heap) - 2
        /\ dirs = pol.dirs
        /\ ReportURI = ""
        /\ UpgradeInsecureRequests = FALSE
        /\ Compiled = MergeBuildString(pol.dirs, pol.heap, FALSE, "", NilDirs, order)
        /\ RequireNonce = MergeBuildRequireNonce(FALSE, pol.dirs, pol.heap, NilDirs)
        /\ Nonce = DefaultNonce
        /\ drawn = {}
        /\ lastOp = "Build"
        /\ arg = NilDirs
        /\ ret = MergeBuildString(pol.dirs, pol.heap, FALSE, "", NilDirs, order)
        /\ nonce = ""
        /\ panicked = FALSE
        /\ built = TRUE
        /\ ops = 0
        /\ calls = [t \in Goroutines |-> Idle]
        /\ request = [pc |-> "idle", mw |-> mw]

\* the handler func up to c.Next() / h.ServeHTTP(cr, r): csp is pol.Compiled,
\* or what WithNonce returns if pol.RequireNonce, or what Build returns if
\* Compiled is empty; the http middleware sets the header here. order is the
\* range order of a Build, r what rand.Read does, if they are called
ServeEnter(order, r) ==
    LET mw == request.mw
        required == RequireNonce
        builds == Compiled = ""
        compiled == IF builds
                    THEN MergeBuildString(dirs, heap, UpgradeInsecureRequests,
                                          ReportURI, NilDirs, order)
                    ELSE Compiled
        require == IF builds
                   THEN MergeBuildRequireNonce(RequireNonce, dirs, heap, NilDirs)
                   ELSE RequireNonce
        draws == required /\ WithNonceDraws(require)
        panics == draws /\ RandReadPanics(r)
        token == IF draws /\ ~panics THEN RawURLEncoding(RandValue(r)) ELSE ""
        csp == IF draws /\ ~panics
               THEN ReplaceAll(compiled, Nonce, "'nonce-" \o token \o "'")
               ELSE IF panics THEN "" ELSE compiled
    IN  /\ request.pc \in {"idle", "done"}
        /\ ops < MaxOps
        /\ ops' = ops + 1
        /\ Compiled' = compiled
        /\ RequireNonce' = require
        /\ built' = (built \/ builds)
        /\ drawn' = IF draws /\ ~panics THEN drawn \cup {r} ELSE drawn
        /\ IF required \/ builds
           THEN /\ lastOp' = (IF required THEN "WithNonce" ELSE "Build")
                /\ arg' = NilDirs
                /\ ret' = csp
                /\ nonce' = token
                /\ panicked' = panics
           ELSE UNCHANGED <<lastOp, arg, ret, nonce, panicked>>
        /\ request' = [pc |-> IF panics THEN "done" ELSE "handler",
                       mw |-> mw,
                       aborted |-> panics,
                       required |-> required,
                       csp |-> csp,
                       nonce |-> token,
                       m |-> NilDirs,
                       stored |-> (mw = "http"),
                       seen |-> "",
                       read |-> FALSE,
                       hashed |-> {},
                       header |-> IF mw = "http" /\ ~panics THEN csp ELSE "",
                       headerSet |-> (mw = "http" /\ ~panics),
                       bodyStarted |-> FALSE,
                       headerAtBody |-> "",
                       steps |-> 0]
        /\ UNCHANGED <<heap, allocated, dirs, ReportURI,
                       UpgradeInsecureRequests, Nonce, calls>>

\* a step of the downstream handler leaves the policy alone
HandlerStep ==
    /\ request.pc = "handler"
    /\ request.steps < MaxHandlerSteps
    /\ UNCHANGED <<heap, allocated, dirs, ReportURI, UpgradeInsecureRequests,
                   Compiled, RequireNonce, Nonce, drawn, lastOp, arg, ret,
                   nonce, panicked, built, ops, calls>>

\* Nonce(c) / Nonce(w): the handler reads the nonce of the request
HandlerNonce ==
    /\ HandlerStep
    /\ request' = [request EXCEPT !.seen = request.nonce, !.read = TRUE,
                                  !.steps = @ + 1]

\* the directive get(ds) / Directive(c, ds) returns: the one of the map, or
\* a new empty one
Get(m, ds) == IF ds \in DOMAIN m THEN m[ds] ELSE EmptyDirective

\* w.m[ds] = d / m[ds] = d
Put(m, ds, d) == [n \in DOMAIN m \cup {ds} |-> IF n = ds THEN d ELSE m[n]]

\* getMap(c) in the gin handler: the map stored in the context, or a new
\* one; cspResponseWriter keeps its map in the field m
GetMap == IF request.stored THEN request.m ELSE NilDirs

\* Hash(c, ds, ht, source) / Hash(w, ds, ht, source), ht a valid hash type:
\* the literal is appended to the directive of the request's map, and gin's
\* Hash stores the map in the context
HandlerHash(ds, ht, source) ==
    /\ HandlerStep
    /\ ValidHashType(ht)
    /\ request' = [request EXCEPT
                      !.m = Put(GetMap, ds, Hash(Get(GetMap, ds), ht, source)),
                      !.stored = TRUE,
                      !.hashed = @ \cup {<<ds, hash(ht, source)>>},
                      !.steps = @ + 1]

\* Directive(c, ds).Add(sources...) / Directive(w, ds).Add(sources...): gin's
\* Directive does not store a map it has just made, so that the directive is
\* lost unless a Hash has stored the map before
HandlerAdd(ds, sources) ==
    /\ HandlerStep
    /\ request' = [request EXCEPT
                      !.m = IF request.stored
                            THEN Put(request.m, ds, Add(Get(request.m, ds), sources, Nonce))
                            ELSE request.m,
                      !.steps = @ + 1]

\* the handler writes to the body: the first write sends the headers
HandlerWrite ==
    /\ HandlerStep
    /\ request' = [request EXCEPT
                      !.bodyStarted = TRUE,
                      !.headerAtBody = IF request.bodyStarted THEN @ ELSE request.header,
                      !.steps = @ + 1]

\* gin's handler func after c.Next(): getMap never returns nil, so that
\* MergeBuild is called with the request's map, and the header is set to what
\* it returns
GinAfter(order) ==
    LET m == GetMap
        csp == MergeBuildString(dirs, heap, UpgradeInsecureRequests, ReportURI,
                                m, order)
    IN  /\ request.pc = "handler"
        /\ request.mw = "gin"
        /\ ops' = ops + 1
        /\ lastOp' = "MergeBuild"
        /\ arg' = m
        /\ ret' = csp
        /\ nonce' = ""
        /\ panicked' = FALSE
        /\ RequireNonce' = MergeBuildRequireNonce(RequireNonce, dirs, heap, m)
        /\ Compiled' = MergeBuildCompiled(Compiled, csp)
        /\ request' = [request EXCEPT !.pc = "done", !.csp = csp,
                                      !.header = csp, !.headerSet = TRUE]
        /\ UNCHANGED <<heap, allocated, dirs, ReportURI,
                       UpgradeInsecureRequests, Nonce, drawn, built, calls>>

\* the http handler func after h.ServeHTTP(cr, r): it returns
HttpAfter ==
    /\ request.pc = "handler"
    /\ request.mw = "http"
    /\ request' = [request EXCEPT !.pc = "done"]
    /\ UNCHANGED <<heap, allocated, dirs, ReportURI, UpgradeInsecureRequests,
                   Compiled, RequireNonce, Nonce, drawn, lastOp, arg, ret,
                   nonce, panicked, built, ops, calls>>

\* a request arrives
Serve == \E order \in Orders(DOMAIN dirs), r \in RandOutcomes : ServeEnter(order, r)

\* the downstream handler of the gin middleware returns
GinReturn == \E order \in Orders(DOMAIN dirs) : GinAfter(order)

NextServe ==
    \/ Serve
    \/ HandlerNonce
    \/ \E ds \in AdditionNames : HandlerHash(ds, SHA512, "doSomething();")
    \/ \E ds \in AdditionNames : HandlerAdd(ds, <<Nonce>>)
    \/ HandlerWrite
    \/ GinReturn
    \/ HttpAfter

SpecServe == InitServe /\ [][NextServe]_vars

---------------------------------------------------------------------------
\* the middleware has served the request: the handler func has returned
\* without panic
Served == request.pc = "done" /\ ~request.aborted

(* C21: when the middleware has served a request with a policy that requires
   a nonce, the nonce the downstream handler gets from Nonce(c) / Nonce(w) is
   the value that stands as 'nonce-<value>' in the response's
   Content-Security-Policy header, and the header holds no placeholder, also
   when the handler has registered additions for the request. *)
C21_HandlerNonceIsHeaderNonce ==
    (Served /\ request.required /\ AnyRequestsNonce)
        => /\ request.nonce # ""
           /\ request.read => request.seen = request.nonce
           /\ request.headerSet
           /\ Contains(request.header, "'nonce-" \o request.nonce \o "'")
           /\ ~Contains(request.header, Nonce)

\* the same, for the requests the net/http middleware serves
C21_HttpOnly ==
    request.mw = "http" => C21_HandlerNonceIsHeaderNonce

---------------------------------------------------------------------------
(* C22: a hash the downstream handler has registered during the request for
   a directive of the policy stands in the Content-Security-Policy header of
   the response to that request. *)
C22_RequestHashInHeader ==
    Served
        => \A h \in request.hashed :
               h[1] \in DOMAIN dirs
                   => request.headerSet /\ Contains(request.header, h[2])

\* the same, for the requests the gin middleware serves
C22_GinOnly ==
    request.mw = "gin" => C22_RequestHashInHeader

---------------------------------------------------------------------------
(* C23: in every request the middleware has set the Content-Security-Policy
   header when the downstream handler starts to write the body, and the
   header keeps the value it had then. *)
C23_HeaderBeforeBody ==
    (request.pc \in {"handler", "done"} /\ request.bodyStarted)
        => /\ request.headerSet
           /\ request.header = request.headerAtBody

\* the same, for the requests the net/http middleware serves
C23_HttpOnly ==
    request.mw = "http" => C23_HeaderBeforeBody

---------------------------------------------------------------------------
\* some directive of the additions map of the last MergeBuild requests a nonce
AdditionRequestsNonce == \E name \in DOMAIN arg : RequestsNonce(arg[name])

\* some directive MergeBuild has written requests a nonce: a directive of
\* the policy, or the addition under the name of a directive of the policy
WrittenRequestsNonce ==
    \/ AnyRequestsNonce
    \/ \E name \in DOMAIN dirs \cap DOMAIN arg : RequestsNonce(arg[name])

(* C24 as stated: after MergeBuild(additions) RequireNonce is true if and
   only if a directive of the policy or a directive of the additions map
   requests a nonce. *)
C24_RequireNonceOverUnion ==
    lastOp = "MergeBuild" => (RequireNonce <=> (AnyRequestsNonce \/ AdditionRequestsNonce))

(* C24, amended: after MergeBuild(additions) RequireNonce is true if and only
   if a directive of the policy requests a nonce, or an addition under the
   name of a directive of the policy does. An addition under a name the
   policy does not have is neither written nor counted. *)
C24_RequireNonceOverWritten ==
    lastOp = "MergeBuild" => (RequireNonce <=> WrittenRequestsNonce)

\* MergeBuild has set RequireNonce because of an addition only: no directive
\* of the policy requests a nonce
C24_Witness ==
    /\ lastOp = "MergeBuild"
    /\ ~AnyRequestsNonce
    /\ \E name \in DOMAIN dirs \cap DOMAIN arg : RequestsNonce(arg[name])
    /\ RequireNonce

---------------------------------------------------------------------------
(* C25: a WithNonce that finds Compiled empty builds first: Compiled becomes
   a string Build returns for the directives configured at that moment and
   RequireNonce tells whether one of them requests a nonce. If one does, the
   call returns Compiled with 'nonce-<token>' in the place of the
   placeholder, <token> being the token it hands back; if none does, it
   returns Compiled and no token. *)
C25_WithNonceBuildsFirst ==
    [][(Called("WithNonce") /\ Compiled = "")
           => /\ Compiled' \in BuildResults
              /\ RequireNonce' <=> AnyRequestsNonce
              /\ heap' = heap /\ dirs' = dirs
              /\ (AnyRequestsNonce /\ ~panicked')
                    => /\ RequireNonce'
                       /\ nonce' # ""
                       /\ Contains(ret', "'nonce-" \o nonce' \o "'")
                       /\ ret' = ReplaceAll(Compiled', Nonce, "'nonce-" \o nonce' \o "'")
              /\ ~AnyRequestsNonce
                    => ~panicked' /\ ret' = Compiled' /\ nonce' = ""]_vars

\* WithNonce is the first call made on a policy after the New that gave it a
\* directive with the Nonce source: no Build has run, and it has returned
\* the token in script-src
C25_Witness ==
    /\ ops = 2
    /\ lastOp = "WithNonce"
    /\ ~panicked
    /\ AnyRequestsNonce
    /\ RequireNonce
    /\ Contains(Compiled, Nonce)
    /\ nonce # ""
    /\ Contains(ret, "'nonce-" \o nonce \o "'")

---------------------------------------------------------------------------
(* C26: the two cached fields of a policy describe the same build:
   RequireNonce is true if and only if Compiled holds the placeholder, so
   that WithNonce returns no string with the placeholder in it and hands
   back a token only with a string that holds it. *)
C26_CachedFieldsAgree ==
    /\ RequireNonce <=> Contains(Compiled, Nonce)
    /\ (lastOp = "WithNonce" /\ ~panicked)
          => /\ ~Contains(ret, Nonce)
             /\ nonce # "" => Contains(ret, "'nonce-" \o nonce \o "'")

---------------------------------------------------------------------------
\* in the policy string s, a directive that lists 'none' lists nothing else
NoneAlone(s) ==
    \A i \in 1..Len(Parts(s)) :
        Contains(Parts(s)[i] \o " ", " 'none' ")
            => \E name \in Names : Parts(s)[i] = name \o " 'none'"

(* C27: no directive of a string Build or MergeBuild returns lists 'none'
   together with another source: a directive without sources merged with an
   addition, or a directive merged with an addition without sources, does
   not render as 'none' before or after other sources. *)
C27_NoneStandsAlone ==
    (lastOp \in {"Build", "MergeBuild"} /\ ~panicked) => NoneAlone(ret)

---------------------------------------------------------------------------
(* The placeholder: SetNoncePlaceholder changes the package variable Nonce
   between the calls that configure, build and serve a policy. A caller that
   writes cspbuilder.Nonce passes the value the variable has at that call. *)

\* the values given to SetNoncePlaceholder
PlaceholderArgs == {"", "{{nonce}}"}

\* the values the variable Nonce takes
Placeholders == {DefaultNonce, "{{nonce}}"}

\* SetNoncePlaceholder(ph)
SetNoncePlaceholder(ph) ==
    /\ Call("SetNoncePlaceholder", ph, "", "", FALSE)
    /\ Nonce' = IF ph = "" THEN "$NONCE" ELSE ph
    /\ UNCHANGED <<heap, allocated, dirs, ReportURI, UpgradeInsecureRequests,
                   Compiled, RequireNonce, drawn, built>>

NextPlaceholder ==
    \/ \E ph \in PlaceholderArgs : SetNoncePlaceholder(ph)
    \/ \E sources \in {<<>>} \cup SourceLists(Nonce) : PolicyNew(Script, sources)
    \/ \E id \in Allocated, sources \in SourceLists(Nonce) : DirectiveAdd(id, sources)
    \/ Build
    \/ WithNonce

SpecPlaceholder == Init /\ [][NextPlaceholder]_vars

\* the directive was given cspbuilder.Nonce as a source, whatever the
\* placeholder was at that call
ConfiguredWithNonce(d) == \E i \in 1..Len(d.sources) : d.sources[i] \in Placeholders

\* some directive stored in the policy was given cspbuilder.Nonce
AnyConfiguredWithNonce ==
    \E name \in DOMAIN dirs : ConfiguredWithNonce(heap[dirs[name]])

(* C28: whatever the order of SetNoncePlaceholder, New, Add and Build, a
   directive that was given the Nonce source is counted by RequireNonce, and
   the string WithNonce returns for a built policy with such a directive
   holds no placeholder, neither the current one nor an earlier one, and
   holds 'nonce-<token>' for the token handed back. *)
C28_PlaceholderConfigurable ==
    /\ (built /\ AnyConfiguredWithNonce) => RequireNonce
    /\ (lastOp = "WithNonce" /\ ~panicked /\ built /\ AnyConfiguredWithNonce)
          => /\ \A ph \in Placeholders : ~Contains(ret, ph)
             /\ nonce # ""
             /\ Contains(ret, "'nonce-" \o nonce \o "'")

\* the part of C28 about RequireNonce
C28_CountedByRequireNonce ==
    (built /\ AnyConfiguredWithNonce) => RequireNonce

=============================================================================
